---- MODULE Spec2Model ----
(***************************************************************************)
(* Usability Testing Tool (src/p1.py): four form presenters that append    *)
(* one record per accepted submission to a CSV file of their own, and a    *)
(* report tab that reloads the four files.  Every interaction is one run   *)
(* of main() from top to bottom: the handler of the button that was        *)
(* clicked, then the report tab.                                           *)
(*                                                                         *)
(* A file is the sequence of its lines, a line the sequence of its cells   *)
(* as text (the quoting pandas adds around a cell is not modelled).  A     *)
(* file that does not exist is the empty sequence: the program never       *)
(* writes a file without lines.                                            *)
(***************************************************************************)
EXTENDS Integers, Sequences, FiniteSets, TLC

VARIABLES
    files,          \* csv path -> the lines of the file
    session_state,  \* st.session_state: a dict over "start_time", "task_duration"
    notice,         \* what the handler of this run showed (st.warning/success/info, or the exception that ended the run)
    report,         \* the report tab as rendered by this run
    timer_clicks,   \* history: the timer clicks since the last 'Save Task Results'
    appended,       \* history: csv path -> the records whose save_to_csv call returned
    pending,        \* user -> the save_to_csv call the user is inside of (between line 25 and line 27/30)
    creates         \* history: csv path -> the number of save_to_csv calls that wrote it in mode 'w'

vars == <<files, session_state, notice, report, timer_clicks, appended, pending, creates>>

----------------------------------------------------------------------------
(* Bounds of the model *)

MaxRows == 2        \* records persisted over all files in one behaviour
MaxClock == 1       \* largest reading of time.time(), in whole seconds
MaxInt == 20        \* largest integer text read_csv is asked to parse
MaxExitRows == 3    \* exit records persisted when the exit questionnaire is studied alone

----------------------------------------------------------------------------
(* Program constants *)

CONSENT_CSV == "data/consent_data.csv"
DEMOGRAPHIC_CSV == "data/demographic_data.csv"
TASK_CSV == "data/task_data.csv"
EXIT_CSV == "data/exit_data.csv"

CsvFiles == {CONSENT_CSV, DEMOGRAPHIC_CSV, TASK_CSV, EXIT_CSV}

MinAge == 18
SliderMin == 1
SliderMax == 5

(* The options of the three choice widgets (the source spells Pokemon with *)
(* an accented e).                                                        *)
FamiliarityOptions == {"Not Familiar", "Somewhat Familiar", "Very Familiar"}
SuccessOptions == {"Yes", "No", "Partial"}
TaskOptions ==
    { "Task 1: Create a team of 6 Pokemon",
      "Task 2: Attempt to edit your team by adding/removing Pokemon",
      "Task 3: Use all features of the application without running into issues" }

----------------------------------------------------------------------------
(* Python values, as far as the program has them *)

PyStr(s) == [t |-> "str", s |-> s]
PyInt(n) == [t |-> "int", n |-> n]
PyFloat(x) == [t |-> "float", x |-> x]     \* x whole seconds: the float x.0
PyBool(b) == [t |-> "bool", b |-> b]
PyNaN == [t |-> "nan"]

(* A dict literal: the sequence of its <<key, value>> pairs, in order. *)
DictKeys(data_dict) == [i \in 1..Len(data_dict) |-> data_dict[i][1]]
DictValues(data_dict) == [i \in 1..Len(data_dict) |-> data_dict[i][2]]

----------------------------------------------------------------------------
(* Row store: save_to_csv and load_from_csv *)

isfile(content) == content # <<>>

(* DataFrame.to_csv(index=False) writes a cell as str() of the value. *)
FormatCell(v) ==
    CASE v.t = "str" -> v.s
      [] v.t = "int" -> ToString(v.n)
      [] v.t = "float" -> ToString(v.x) \o ".0"
      [] v.t = "bool" -> (IF v.b THEN "True" ELSE "False")
      [] v.t = "nan" -> ""

FormatRow(data_dict) == [i \in 1..Len(data_dict) |-> FormatCell(data_dict[i][2])]

to_csv(content, data_dict, mode, header) ==
    LET lines == (IF header THEN <<DictKeys(data_dict)>> ELSE <<>>)
                    \o <<FormatRow(data_dict)>>
    IN  IF mode = "w" THEN lines ELSE content \o lines

(* write_csv with the header written on every call. *)
write_csv_header_always(content, data_dict, existed) ==
    IF ~existed
    THEN to_csv(content, data_dict, "w", TRUE)
    ELSE to_csv(content, data_dict, "a", TRUE)

(* write_csv deciding on the file as it is when the write happens. *)
write_csv_rechecked(content, data_dict, existed) ==
    IF ~isfile(content)
    THEN to_csv(content, data_dict, "w", TRUE)
    ELSE to_csv(content, data_dict, "a", FALSE)

(* The two branches of save_to_csv, given what os.path.isfile answered. *)
write_csv(content, data_dict, existed) ==
    IF ~existed
    THEN to_csv(content, data_dict, "w", TRUE)
    ELSE to_csv(content, data_dict, "a", FALSE)

save_to_csv(data_dict, content) == write_csv(content, data_dict, isfile(content))

(* pandas.read_csv with its defaults: the first line names the columns,   *)
(* and each column's dtype is inferred from all of its cells.             *)
NaValues == {"", "#N/A", "N/A", "NA", "NULL", "NaN", "None", "n/a", "nan", "null", "<NA>"}
IntTexts == {ToString(i) : i \in 0..MaxInt}
FloatTexts == {ToString(i) \o ".0" : i \in 0..MaxInt}
BoolTexts == {"True", "False"}

NumberOf(c) ==
    IF c \in IntTexts
    THEN CHOOSE i \in 0..MaxInt : ToString(i) = c
    ELSE CHOOSE i \in 0..MaxInt : ToString(i) \o ".0" = c

Cell(line, j) == IF j <= Len(line) THEN line[j] ELSE ""

InferDtype(cells) ==
    LET present == {i \in 1..Len(cells) : cells[i] \notin NaValues}
        hasNA == \E i \in 1..Len(cells) : cells[i] \in NaValues
    IN  IF present = {} THEN "float"
        ELSE IF \A i \in present : cells[i] \in IntTexts
             THEN (IF hasNA THEN "float" ELSE "int")
        ELSE IF \A i \in present : cells[i] \in IntTexts \cup FloatTexts THEN "float"
        ELSE IF (\A i \in present : cells[i] \in BoolTexts) /\ ~hasNA THEN "bool"
        ELSE "object"

ParseCell(c, dtype) ==
    IF c \in NaValues THEN PyNaN
    ELSE CASE dtype = "int" -> PyInt(NumberOf(c))
           [] dtype = "float" -> PyFloat(NumberOf(c))
           [] dtype = "bool" -> PyBool(c = "True")
           [] dtype = "object" -> PyStr(c)

EmptyDataFrame == [columns |-> <<>>, dtypes |-> <<>>, rows |-> <<>>]

read_csv(content) ==
    LET columns == content[1]
        n == Len(content) - 1
        column(j) == [i \in 1..n |-> Cell(content[i + 1], j)]
        dtypes == [j \in 1..Len(columns) |-> InferDtype(column(j))]
    IN  [ columns |-> columns,
          dtypes |-> dtypes,
          rows |-> [i \in 1..n |->
                      [j \in 1..Len(columns) |-> ParseCell(Cell(content[i + 1], j), dtypes[j])]] ]

load_from_csv(content) == IF isfile(content) THEN read_csv(content) ELSE EmptyDataFrame

DataFrameEmpty(df) == Len(df.rows) = 0 \/ Len(df.columns) = 0

----------------------------------------------------------------------------
(* Report tab *)

(* RoundHundredths cutting the digits after the second decimal. *)
RoundHundredths_truncated(sum, n) == (100 * sum) \div n

(* f"{x:.2f}" of the float sum/n: the nearest hundredth; a mean that lies   *)
(* exactly between two hundredths is a multiple of 1/8 for every n below   *)
(* 40, so the float is exact and the tie goes to the even hundredth.       *)
RoundHundredths(sum, n) ==
    LET q == (100 * sum) \div n
        r == (100 * sum) % n
    IN  IF 2 * r < n THEN q
        ELSE IF 2 * r > n THEN q + 1
        ELSE IF q % 2 = 0 THEN q ELSE q + 1

Format2f(h) ==
    ToString(h \div 100) \o "." \o (IF h % 100 < 10 THEN "0" ELSE "") \o ToString(h % 100)

RECURSIVE SumOf(_)
SumOf(numbers) ==
    IF numbers = <<>> THEN 0 ELSE Head(numbers) + SumOf(Tail(numbers))

(* Series.mean() of a numeric column skips the missing cells. *)
ColumnMean(df, name) ==
    LET j == CHOOSE k \in 1..Len(df.columns) : df.columns[k] = name
        cells == [i \in 1..Len(df.rows) |-> df.rows[i][j]]
        kept == SelectSeq(cells, LAMBDA v : v.t # "nan")
        numbers == [i \in 1..Len(kept) |-> IF kept[i].t = "int" THEN kept[i].n ELSE kept[i].x]
    IN  IF kept = <<>> THEN "nan"
        ELSE Format2f(RoundHundredths(SumOf(numbers), Len(kept)))

HasNumericColumn(df, name) ==
    \E k \in 1..Len(df.columns) :
        df.columns[k] = name /\ df.dtypes[k] \in {"int", "float"}

ReportNotRendered == [rendered |-> FALSE]

(* st.dataframe(df) for a table with rows, st.info(...) for an empty one;  *)
(* the two averages only when the exit table has rows.                     *)
render_report(fs) ==
    LET dfs == [f \in CsvFiles |-> load_from_csv(fs[f])]
        exit_df == dfs[EXIT_CSV]
    IN  IF DataFrameEmpty(exit_df)
        THEN [rendered |-> TRUE, dataframes |-> dfs, averages |-> <<>>]
        ELSE IF HasNumericColumn(exit_df, "satisfaction")
                /\ HasNumericColumn(exit_df, "difficulty")
        THEN [ rendered |-> TRUE, dataframes |-> dfs,
               averages |-> << ColumnMean(exit_df, "satisfaction"),
                               ColumnMean(exit_df, "difficulty") >> ]
        ELSE ReportNotRendered      \* the mean of a non-numeric column raises

----------------------------------------------------------------------------
(* Messages *)

NoNotice == [kind |-> "none", text |-> ""]
ConsentWarning == [kind |-> "warning", text |-> "You must agree to the consent terms before proceeding."]
ConsentSuccess == [kind |-> "success", text |-> "Your consent has been recorded. Thank you!"]
AgeWarning == [kind |-> "warning", text |-> "You must be 18 or older to fill this form out."]
OccupationWarning == [kind |-> "warning", text |-> "Please fill out the occupation field."]
DemographicSuccess == [kind |-> "success", text |-> "Demographic data saved."]
TimerStarted == [kind |-> "info", text |-> "Timer has started."]
TimerStopped == [kind |-> "success", text |-> "Task completed"]
TaskSuccess == [kind |-> "success", text |-> "Task data saved."]
ExitSuccess == [kind |-> "success", text |-> "Exit questionnaire data saved."]
GifException == [kind |-> "exception", text |-> "FileNotFoundError"]

----------------------------------------------------------------------------
(* The records the presenters build *)

ConsentRecord(now, consent_given) ==
    << <<"timestamp", PyStr(now)>>,
       <<"consent_given", PyBool(consent_given)>> >>

DemographicRecord(now, name, age, occupation, familiarity) ==
    << <<"timestamp", PyStr(now)>>,
       <<"name", PyStr(name)>>,
       <<"age", PyInt(age)>>,
       <<"occupation", PyStr(occupation)>>,
       <<"familiarity", PyStr(familiarity)>> >>

(* TaskRecord with the bug fields present only when the checkbox is ticked. *)
TaskRecord_bug_fields_optional(now, selected_task, success, state, bugs, traceback, bug_desc, bug_imp, notes) ==
    LET has == "task_duration" \in DOMAIN state
    IN  << <<"timestamp", PyStr(now)>>,
           <<"task_name", PyStr(selected_task)>>,
           <<"success", PyStr(success)>>,
           <<"duration_seconds",
             IF has /\ state["task_duration"] # 0
             THEN PyFloat(state["task_duration"]) ELSE PyStr("")>> >>
        \o (IF bugs
            THEN << <<"bug", PyStr(traceback)>>,
                    <<"bug_description", PyStr(bug_desc)>>,
                    <<"bug_impact", PyInt(bug_imp)>> >>
            ELSE <<>>)
        \o << <<"notes", PyStr(notes)>> >>

(* duration_val is session_state.get("task_duration"); 0.0 is falsy.  The  *)
(* bug widgets exist only when the checkbox is ticked.                     *)
TaskRecord(now, selected_task, success, state, bugs, traceback, bug_desc, bug_imp, notes) ==
    LET has == "task_duration" \in DOMAIN state
    IN  << <<"timestamp", PyStr(now)>>,
           <<"task_name", PyStr(selected_task)>>,
           <<"success", PyStr(success)>>,
           <<"duration_seconds",
             IF has /\ state["task_duration"] # 0
             THEN PyFloat(state["task_duration"]) ELSE PyStr("")>>,
           <<"bug", IF bugs THEN PyStr(traceback) ELSE PyStr("")>>,
           <<"bug_description", IF bugs THEN PyStr(bug_desc) ELSE PyStr("")>>,
           <<"bug_impact", IF bugs THEN PyInt(bug_imp) ELSE PyStr("")>>,
           <<"notes", PyStr(notes)>> >>

ExitRecord(now, satisfaction, difficulty, open_feedback) ==
    << <<"timestamp", PyStr(now)>>,
       <<"satisfaction", PyInt(satisfaction)>>,
       <<"difficulty", PyInt(difficulty)>>,
       <<"open_feedback", PyStr(open_feedback)>> >>

----------------------------------------------------------------------------
(* One run of main() per interaction *)

Save(data_dict, csv_file) ==
    /\ files' = [files EXCEPT ![csv_file] = save_to_csv(data_dict, @)]
    /\ appended' = [appended EXCEPT ![csv_file] = Append(@, data_dict)]
    /\ creates' = [creates EXCEPT ![csv_file] = IF isfile(files[csv_file]) THEN @ ELSE @ + 1]

NoSave == UNCHANGED <<files, appended, creates>>

(* A run with no button pressed: a page load, a widget changed. *)
Rerun ==
    /\ notice' = NoNotice
    /\ report' = render_report(files)
    /\ UNCHANGED <<files, appended, session_state, timer_clicks, pending, creates>>

DictSet(state, key, value) ==
    [k \in DOMAIN state \cup {key} |-> IF k = key THEN value ELSE state[k]]

DictDel(state, keys) == [k \in DOMAIN state \ keys |-> state[k]]

(* SubmitConsent without the test of the checkbox. *)
SubmitConsent_unchecked(now, consent_given) ==
    /\ notice' = ConsentSuccess
    /\ Save(ConsentRecord(now, consent_given), CONSENT_CSV)
    /\ report' = render_report(files')
    /\ UNCHANGED <<session_state, timer_clicks, pending>>

SubmitConsent(now, consent_given) ==
    /\ IF ~consent_given
       THEN notice' = ConsentWarning /\ NoSave
       ELSE notice' = ConsentSuccess /\ Save(ConsentRecord(now, consent_given), CONSENT_CSV)
    /\ report' = render_report(files')
    /\ UNCHANGED <<session_state, timer_clicks, pending>>

(* SubmitDemographics with the age test off by one. *)
SubmitDemographics_over_18(now, name, age, occupation, familiarity) ==
    /\ IF age <= MinAge
       THEN notice' = AgeWarning /\ NoSave
       ELSE IF occupation = ""
       THEN notice' = OccupationWarning /\ NoSave
       ELSE /\ Save(DemographicRecord(now, name, age, occupation, familiarity), DEMOGRAPHIC_CSV)
            /\ notice' = DemographicSuccess
    /\ report' = render_report(files')
    /\ UNCHANGED <<session_state, timer_clicks, pending>>

SubmitDemographics(now, name, age, occupation, familiarity) ==
    /\ IF age < MinAge
       THEN notice' = AgeWarning /\ NoSave
       ELSE IF occupation = ""
       THEN notice' = OccupationWarning /\ NoSave
       ELSE /\ Save(DemographicRecord(now, name, age, occupation, familiarity), DEMOGRAPHIC_CSV)
            /\ notice' = DemographicSuccess
    /\ report' = render_report(files')
    /\ UNCHANGED <<session_state, timer_clicks, pending>>

StartTaskTimer(time) ==
    /\ session_state' = DictSet(session_state, "start_time", time)
    /\ notice' = TimerStarted
    /\ timer_clicks' = IF timer_clicks = "stopped" THEN "stopped" ELSE "started"
    /\ report' = render_report(files)
    /\ UNCHANGED <<files, appended, pending, creates>>

(* StopTaskTimer without the test for a start_time, counting from 0. *)
StopTaskTimer_unguarded(time) ==
    /\ session_state' =
           DictSet(session_state, "task_duration",
                   time - (IF "start_time" \in DOMAIN session_state
                           THEN session_state["start_time"] ELSE 0))
    /\ notice' = TimerStopped
    /\ timer_clicks' = IF timer_clicks = "idle" THEN "idle" ELSE "stopped"
    /\ report' = render_report(files)
    /\ UNCHANGED <<files, appended, pending, creates>>

StopTaskTimer(time) ==
    /\ IF "start_time" \in DOMAIN session_state
       THEN /\ session_state' =
                   DictSet(session_state, "task_duration", time - session_state["start_time"])
            /\ notice' = TimerStopped
       ELSE /\ session_state' = session_state
            /\ notice' = NoNotice
    /\ timer_clicks' = IF timer_clicks = "idle" THEN "idle" ELSE "stopped"
    /\ report' = render_report(files)
    /\ UNCHANGED <<files, appended, pending, creates>>

(* SaveTaskResults that forgets to delete task_duration. *)
SaveTaskResults_keeps_duration(now, selected_task, success, bugs, traceback, bug_desc, bug_imp, notes) ==
    /\ Save(TaskRecord(now, selected_task, success, session_state,
                       bugs, traceback, bug_desc, bug_imp, notes), TASK_CSV)
    /\ notice' = TaskSuccess
    /\ session_state' = DictDel(session_state, {"start_time"})
    /\ timer_clicks' = "idle"
    /\ report' = render_report(files')
    /\ UNCHANGED pending

SaveTaskResults(now, selected_task, success, bugs, traceback, bug_desc, bug_imp, notes) ==
    /\ Save(TaskRecord(now, selected_task, success, session_state,
                       bugs, traceback, bug_desc, bug_imp, notes), TASK_CSV)
    /\ notice' = TaskSuccess
    /\ session_state' = DictDel(session_state, {"start_time", "task_duration"})
    /\ timer_clicks' = "idle"
    /\ report' = render_report(files')
    /\ UNCHANGED pending

(* SubmitExit reading the GIF before it saves the record. *)
SubmitExit_gif_first(now, satisfaction, difficulty, open_feedback, gif_readable) ==
    /\ IF gif_readable
       THEN /\ Save(ExitRecord(now, satisfaction, difficulty, open_feedback), EXIT_CSV)
            /\ notice' = ExitSuccess /\ report' = render_report(files')
       ELSE /\ NoSave
            /\ notice' = GifException /\ report' = ReportNotRendered
    /\ UNCHANGED <<session_state, timer_clicks, pending>>

(* The record is saved, then the GIF is opened; when that raises, the run  *)
(* ends there: no success message, no report tab.                          *)
SubmitExit(now, satisfaction, difficulty, open_feedback, gif_readable) ==
    /\ Save(ExitRecord(now, satisfaction, difficulty, open_feedback), EXIT_CSV)
    /\ IF gif_readable
       THEN notice' = ExitSuccess /\ report' = render_report(files')
       ELSE notice' = GifException /\ report' = ReportNotRendered
    /\ UNCHANGED <<session_state, timer_clicks, pending>>


----------------------------------------------------------------------------
(* Two users inside save_to_csv at once: os.path.isfile (line 25) and the  *)
(* write (line 27 or 30) are separate steps, with no lock between them.    *)

Users == {"u1", "u2"}
NoCall == [call |-> "none"]

EnterSave(user, data_dict, csv_file) ==
    /\ pending[user] = NoCall
    /\ pending' = [pending EXCEPT ![user] =
                      [ call |-> "save_to_csv", data_dict |-> data_dict,
                        csv_file |-> csv_file, existed |-> isfile(files[csv_file]) ]]
    /\ UNCHANGED <<files, appended, creates, session_state, notice, report, timer_clicks>>

LeaveSave(user) ==
    /\ pending[user] # NoCall
    /\ LET p == pending[user]
       IN  /\ files' = [files EXCEPT ![p.csv_file] = write_csv(@, p.data_dict, p.existed)]
           /\ appended' = [appended EXCEPT ![p.csv_file] = Append(@, p.data_dict)]
           /\ creates' = [creates EXCEPT ![p.csv_file] = IF p.existed THEN @ ELSE @ + 1]
    /\ pending' = [pending EXCEPT ![user] = NoCall]
    /\ UNCHANGED <<session_state, notice, report, timer_clicks>>

----------------------------------------------------------------------------
(* What the users enter and what the environment answers *)

(* Text widgets hold an empty and a non-empty text; the choice widgets one *)
(* of their options; time.strftime answers in "%Y-%m-%d %H:%M:%S".        *)
Timestamps == {"2025-03-01 10:00:00"}
Names == {"", "Ann"}
Ages == {1, 17, 18}
Occupations == {"", "nurse"}
Familiarities == {"Very Familiar"}
SelectedTasks == {"Task 1: Create a team of 6 Pokemon"}
Successes == {"Partial"}
Tracebacks == {"KeyError: 'sprites'"}
BugDescriptions == {"search crashed"}
BugImpacts == {3}
Notes == {""}
Feedbacks == {"", "fine"}
Ratings == {2, 4}
Difficulties == {1, 3, 5}
ClockReadings == 0..MaxClock
Slider == SliderMin..SliderMax

RECURSIVE Total(_, _)
Total(f, S) ==
    IF S = {} THEN 0
    ELSE LET x == CHOOSE y \in S : TRUE IN f[x] + Total(f, S \ {x})

InFlight == Cardinality({u \in Users : pending[u] # NoCall})
RowsSaved == Total([f \in CsvFiles |-> Len(appended[f])], CsvFiles) + InFlight
Room == RowsSaved < MaxRows

Init ==
    /\ files = [f \in CsvFiles |-> <<>>]
    /\ appended = [f \in CsvFiles |-> <<>>]
    /\ session_state = [k \in {} |-> 0]
    /\ notice = NoNotice
    /\ report = ReportNotRendered
    /\ timer_clicks = "idle"
    /\ pending = [u \in Users |-> NoCall]
    /\ creates = [f \in CsvFiles |-> 0]

ClickSubmitConsent ==
    \E now \in Timestamps, consent_given \in BOOLEAN :
        /\ Room
        /\ SubmitConsent(now, consent_given)

ClickSubmitDemographics ==
    \E now \in Timestamps, name \in Names, age \in Ages,
       occupation \in Occupations, familiarity \in Familiarities :
        /\ Room
        /\ SubmitDemographics(now, name, age, occupation, familiarity)

ClickStartTaskTimer ==
    \E time \in ClockReadings : StartTaskTimer(time)

(* time.time() does not run backwards between Start and Stop. *)
ClickStopTaskTimer ==
    \E time \in ClockReadings :
        /\ "start_time" \in DOMAIN session_state => time >= session_state["start_time"]
        /\ StopTaskTimer(time)

ClickSaveTaskResults ==
    \E now \in Timestamps, selected_task \in SelectedTasks, success \in Successes,
       bugs \in BOOLEAN, traceback \in Tracebacks, bug_desc \in BugDescriptions,
       bug_imp \in BugImpacts, notes \in Notes :
        /\ Room
        /\ SaveTaskResults(now, selected_task, success, bugs, traceback, bug_desc, bug_imp, notes)

ClickSubmitExit ==
    \E now \in Timestamps, satisfaction \in Ratings, difficulty \in {3},
       open_feedback \in Feedbacks, gif_readable \in BOOLEAN :
        /\ Room
        /\ SubmitExit(now, satisfaction, difficulty, open_feedback, gif_readable)

Next ==
    \/ Rerun
    \/ ClickSubmitConsent
    \/ ClickSubmitDemographics
    \/ ClickStartTaskTimer
    \/ ClickStopTaskTimer
    \/ ClickSaveTaskResults
    \/ ClickSubmitExit

Spec == Init /\ [][Next]_vars

(* The exit questionnaire alone, over the whole range of both sliders. *)
ClickSubmitExitAny ==
    \E now \in Timestamps, satisfaction \in Slider, difficulty \in Difficulties,
       gif_readable \in BOOLEAN :
        /\ Len(appended[EXIT_CSV]) < MaxExitRows
        /\ SubmitExit(now, satisfaction, difficulty, "", gif_readable)

NextExit == Rerun \/ ClickSubmitExitAny

SpecExit == Init /\ [][NextExit]_vars

(* Two users whose accepted submissions are inside save_to_csv together. *)
AcceptedSubmissions ==
    {<<ConsentRecord(now, TRUE), CONSENT_CSV>> : now \in Timestamps}
    \cup {<<DemographicRecord(now, name, 18, "nurse", "Very Familiar"), DEMOGRAPHIC_CSV>> :
                now \in Timestamps, name \in Names}
    \cup {<<ExitRecord(now, s, 3, ""), EXIT_CSV>> : now \in Timestamps, s \in Ratings}

UserEntersSave ==
    \E user \in Users, submission \in AcceptedSubmissions :
        /\ Room
        /\ EnterSave(user, submission[1], submission[2])

UserLeavesSave == \E user \in Users : LeaveSave(user)

NextConcurrent == UserEntersSave \/ UserLeavesSave

SpecConcurrent == Init /\ [][NextConcurrent]_vars

----------------------------------------------------------------------------
(* Properties *)

DataRows(content) == Len(load_from_csv(content).rows)
LastLine(content) == content[Len(content)]
KeepsLines(old, new) == Len(new) >= Len(old) /\ SubSeq(new, 1, Len(old)) = old
DurationCell(line) == line[4]
BugCell(line) == line[5]

(* C1: a 'Submit Consent' click with the box checked appends exactly one   *)
(* row to the consent file, whatever the file held: the row count grows by *)
(* one and the lines already there stay; with the box unchecked a warning  *)
(* is shown and no file changes (none is created).                         *)
C1_ConsentSubmit ==
    [][\A now \in Timestamps :
        /\ SubmitConsent(now, TRUE) =>
              /\ DataRows(files'[CONSENT_CSV]) = DataRows(files[CONSENT_CSV]) + 1
              /\ KeepsLines(files[CONSENT_CSV], files'[CONSENT_CSV])
              /\ Len(appended'[CONSENT_CSV]) = Len(appended[CONSENT_CSV]) + 1
        /\ SubmitConsent(now, FALSE) =>
              /\ notice'.kind = "warning"
              /\ files' = files
      ]_vars

C1_Witness ==
    /\ notice = ConsentSuccess
    /\ Len(files[CONSENT_CSV]) = 3

(* C2: a 'Submit Demographics' click appends one row to the demographic    *)
(* file if and only if age >= 18 and the occupation is not empty; any      *)
(* other submission, whatever its name, occupation and familiarity, shows  *)
(* a warning and leaves every file as it was.                              *)
C2_DemographicSubmit ==
    [][\A now \in Timestamps, name \in Names, age \in Ages,
          occupation \in Occupations, familiarity \in FamiliarityOptions :
        SubmitDemographics(now, name, age, occupation, familiarity) =>
            IF age >= 18 /\ occupation # ""
            THEN /\ DataRows(files'[DEMOGRAPHIC_CSV]) = DataRows(files[DEMOGRAPHIC_CSV]) + 1
                 /\ KeepsLines(files[DEMOGRAPHIC_CSV], files'[DEMOGRAPHIC_CSV])
            ELSE /\ files' = files
                 /\ notice'.kind = "warning"
      ]_vars

C2_Witness ==
    /\ notice = AgeWarning
    /\ Len(files[DEMOGRAPHIC_CSV]) = 2

(* C3: load_from_csv of a file that does not exist has no rows, and after  *)
(* exactly one save_to_csv to a file that did not exist load_from_csv      *)
(* returns one row whose values are the values of the record appended.     *)
C3_LoadReturnsAppended ==
    \A f \in CsvFiles :
        /\ ~isfile(files[f]) => Len(load_from_csv(files[f]).rows) = 0
        /\ Len(appended[f]) = 1 =>
              /\ load_from_csv(files[f]).columns = DictKeys(appended[f][1])
              /\ load_from_csv(files[f]).rows = <<DictValues(appended[f][1])>>

(* C4: a file that exists holds exactly one header line, the first, which  *)
(* names the fields of the first record appended; every later append adds  *)
(* one line and no header.                                                 *)
C4_SingleHeader ==
    \A f \in CsvFiles :
        isfile(files[f]) =>
            /\ appended[f] # <<>>
            /\ files[f][1] = DictKeys(appended[f][1])
            /\ \A i \in 2..Len(files[f]) : files[f][i] # files[f][1]
            /\ Len(files[f]) = 1 + Len(appended[f])

C4_Witness == \E f \in CsvFiles : Len(files[f]) = 3 /\ Len(appended[f]) = 2

(* C5: in every file the presenters write, the header is the section's     *)
(* fixed list of field names, every record appended has exactly those      *)
(* fields and every line has as many cells as the header: a task record    *)
(* has the same eight fields with and without the bug checkbox.            *)
SectionFields ==
    [f \in CsvFiles |->
        CASE f = CONSENT_CSV -> <<"timestamp", "consent_given">>
          [] f = DEMOGRAPHIC_CSV -> <<"timestamp", "name", "age", "occupation", "familiarity">>
          [] f = TASK_CSV -> <<"timestamp", "task_name", "success", "duration_seconds",
                               "bug", "bug_description", "bug_impact", "notes">>
          [] f = EXIT_CSV -> <<"timestamp", "satisfaction", "difficulty", "open_feedback">>]

C5_SameFields ==
    \A f \in CsvFiles :
        /\ \A i \in 1..Len(appended[f]) : DictKeys(appended[f][i]) = SectionFields[f]
        /\ isfile(files[f]) =>
              /\ files[f][1] = SectionFields[f]
              /\ \A i \in 2..Len(files[f]) : Len(files[f][i]) = Len(files[f][1])

C5_Witness ==
    /\ Len(files[TASK_CSV]) = 3
    /\ BugCell(files[TASK_CSV][2]) # ""
    /\ BugCell(files[TASK_CSV][3]) = ""

(* C6: a rendered report shows no average while the exit file has no rows; *)
(* otherwise it shows, for satisfaction and for difficulty, the mean of    *)
(* that field over all exit records appended so far, with two decimals     *)
(* (the hundredth nearest to the mean); after the records with             *)
(* satisfaction 4 and 2 it shows 3.00.                                     *)
Digit == <<"0", "1", "2", "3", "4", "5", "6", "7", "8", "9">>
TwoDecimals(h) ==
    Digit[(h \div 100) + 1] \o "." \o Digit[((h \div 10) % 10) + 1] \o Digit[(h % 10) + 1]

ShowsMean(text, numbers) ==
    LET n == Len(numbers)
        sum == SumOf(numbers)
    IN  \E h \in 0..(100 * SliderMax) :
            /\ text = TwoDecimals(h)
            /\ 2 * (n * h - 100 * sum) <= n
            /\ 2 * (100 * sum - n * h) <= n

FieldOf(records, k) == [i \in 1..Len(records) |-> records[i][k][2].n]

C6_ReportAverages ==
    report.rendered =>
        LET records == appended[EXIT_CSV]
        IN  IF records = <<>>
            THEN report.averages = <<>> /\ ~isfile(files[EXIT_CSV])
            ELSE /\ Len(report.averages) = 2
                 /\ ShowsMean(report.averages[1], FieldOf(records, 2))
                 /\ ShowsMean(report.averages[2], FieldOf(records, 3))
                 /\ FieldOf(records, 2) = <<4, 2>> => report.averages[1] = "3.00"

C6_Witness ==
    /\ report.rendered
    /\ FieldOf(appended[EXIT_CSV], 2) = <<4, 2>>
    /\ report.averages[1] = "3.00"

(* C7: after a 'Save Task Results' click the session state holds neither   *)
(* start_time nor task_duration, whatever timer clicks came before; a Save *)
(* with no Start-then-Stop since the previous Save records an empty        *)
(* duration_seconds.                                                       *)
C7_SaveClearsTimer ==
    [][\A now \in Timestamps, selected_task \in SelectedTasks, success \in Successes,
          bugs \in BOOLEAN, traceback \in Tracebacks, bug_desc \in BugDescriptions,
          bug_imp \in BugImpacts, notes \in Notes :
        SaveTaskResults(now, selected_task, success, bugs, traceback, bug_desc, bug_imp, notes) =>
            /\ "start_time" \notin DOMAIN session_state'
            /\ "task_duration" \notin DOMAIN session_state'
            /\ (appended[TASK_CSV] # <<>> /\ timer_clicks # "stopped") =>
                  DurationCell(LastLine(files'[TASK_CSV])) = ""
      ]_vars

C7_Witness ==
    /\ notice = TaskSuccess
    /\ Len(files[TASK_CSV]) = 3
    /\ DurationCell(files[TASK_CSV][2]) # ""
    /\ DurationCell(files[TASK_CSV][3]) = ""

(* C8: when two save_to_csv calls both found the file missing and both     *)
(* wrote it, the file is not the header followed by the records saved: a   *)
(* record is lost.                                                         *)
Intact(f) ==
    <<DictKeys(appended[f][1])>> \o [i \in 1..Len(appended[f]) |-> FormatRow(appended[f][i])]

C8_BothCreateCorrupts ==
    \A f \in CsvFiles : creates[f] >= 2 => files[f] # Intact(f)

C8_Witness ==
    \E f \in CsvFiles :
        /\ creates[f] = 2
        /\ Len(appended[f]) = 2
        /\ \A u \in Users : pending[u] = NoCall
        /\ Len(files[f]) = 2

(* C9: a task record gets a duration only if, since the previous Save (or  *)
(* the start of the session), Start was clicked and Stop after it; Start   *)
(* then Save with no Stop records an empty duration; a Stop click with no  *)
(* start_time in the session state leaves the session state as it was.     *)
C9_DurationNeedsStartStop ==
    [][/\ \A now \in Timestamps, selected_task \in SelectedTasks, success \in Successes,
             bugs \in BOOLEAN, traceback \in Tracebacks, bug_desc \in BugDescriptions,
             bug_imp \in BugImpacts, notes \in Notes :
           SaveTaskResults(now, selected_task, success, bugs, traceback, bug_desc, bug_imp, notes) =>
               /\ DurationCell(LastLine(files'[TASK_CSV])) # "" => timer_clicks = "stopped"
               /\ timer_clicks = "started" => DurationCell(LastLine(files'[TASK_CSV])) = ""
       /\ \A time \in ClockReadings :
           (StopTaskTimer(time) /\ "start_time" \notin DOMAIN session_state) =>
               session_state' = session_state
      ]_vars

C9_Witness ==
    /\ notice = TaskSuccess
    /\ isfile(files[TASK_CSV])
    /\ DurationCell(LastLine(files[TASK_CSV])) # ""

(* C10: an exit submission whose GIF cannot be read has its record in the  *)
(* exit file all the same (one more row, the earlier lines kept), ends in  *)
(* the exception and shows no success message; submitted again, it adds a  *)
(* second row.                                                             *)
C10_ExitSavedBeforeGif ==
    [][\A now \in Timestamps, satisfaction \in Slider, difficulty \in Slider,
          open_feedback \in Feedbacks :
        SubmitExit(now, satisfaction, difficulty, open_feedback, FALSE) =>
            /\ DataRows(files'[EXIT_CSV]) = DataRows(files[EXIT_CSV]) + 1
            /\ KeepsLines(files[EXIT_CSV], files'[EXIT_CSV])
            /\ LastLine(files'[EXIT_CSV])
                  = FormatRow(ExitRecord(now, satisfaction, difficulty, open_feedback))
            /\ notice'.kind = "exception"
            /\ notice' # ExitSuccess
      ]_vars

C10_Witness ==
    /\ notice = GifException
    /\ Len(files[EXIT_CSV]) = 3
    /\ Len(appended[EXIT_CSV]) = 2

====
